---- MODULE Spec2Model ----
(***************************************************************************)
(* Anti-abuse delete throttling and trust scoring of the homework          *)
(* application (src/app.py): the in-memory state of the Flask process, its *)
(* request handlers and the helpers they call.                             *)
(*                                                                         *)
(* Time.  time.time() returns a float; the model counts time in ticks of   *)
(* 1/TicksPerSecond second, so that fractions of a second (and the         *)
(* truncation int() applies to them) exist in the model.  The clock never  *)
(* runs backwards.                                                         *)
(*                                                                         *)
(* Dictionaries are functions whose DOMAIN is the set of keys present.     *)
(* str(hw_id), the key of a completion record, is injective on integers    *)
(* and is used on every access, so completion records are keyed by the     *)
(* integer id.                                                             *)
(***************************************************************************)
EXTENDS Integers, Sequences, FiniteSets, TLC

\* ------------------------------------------------------------------ bounds
TicksPerSecond == 2
\* the clock runs for MaxHours hours and a few cooldowns
MaxHours == 2
\* record_delete_operation reads the time at most MaxLatency ticks after
\* can_user_delete did
MaxLatency == 1
\* the users' counters of adds, completes and deletes together are not
\* driven beyond MaxActions, and in the runs that raise the scores to the
\* upper clamp not beyond MaxScoreActions
MaxActions == 3
MaxScoreActions == 5
\* homeworks in the stored collection of the long runs
NumStored == 6
\* the stored counters of adds, completes and deletes run from 0 to MaxCount
MaxCount == 10
\* the requests followed to the files start at most MaxSaves save tasks
MaxSaves == 2
\* stored action histories are at most HistoryMargin records short of full,
\* and are driven at most HistoryMargin records beyond
HistoryMargin == 2

\* ------------------------------------------------------- program constants
max_per_hour == 3
cooldown_minutes == 5
default_trust_score == 70
max_per_day == 10
SecondsPerMinute == 60
PruneAge == 3600
LowTrust == 30
MaxHistory == 50

Users == {"u1", "u2"}
\* the worker threads of the threaded server
Threads == {"t1", "t2"}
\* two of DELETE_REASONS ("重复作业", "作业已取消"); any string is accepted
Reasons == {"duplicate", "cancelled"}
\* "" stands for an empty or a missing reason
ReasonInputs == Reasons \cup {""}
\* the homework codes a client submits and the homework ids a request names
Codes == {1, 2}
HwIds == {1, 2}

Hour == PruneAge * TicksPerSecond
Cooldown == cooldown_minutes * SecondsPerMinute * TicksPerSecond
\* the instants the clock can show: h hours and k cooldowns and o ticks
\* after the start
CooldownSlots == {0, 1, 2}
Offsets == {0, 1}
Times ==
    { h * Hour + k * Cooldown + o :
        h \in 0..MaxHours, k \in CooldownSlots, o \in Offsets }
\* the instants up to the end of the first cooldown
ShortTimes == { t \in Times : t <= Cooldown + 1 }

VARIABLES
    homeworks,          \* list of [id, code]
    completions,        \* user -> (homework id -> completed)
    user_stats,         \* user -> counters, reason tally, history length
    user_trust_scores,  \* user -> running score
    delete_operations,  \* user -> delete timestamps, oldest first
    clock,              \* the latest reading of time.time(), in ticks
    last,               \* the response of the latest request
    threads,            \* worker thread -> the request it is handling
    data_lock,          \* who holds data_lock
    files,              \* the contents of the three JSON files
    save_tasks          \* the save_task threads started, in order

\* the lock, the files and the save tasks
Storage == <<data_lock, files, save_tasks>>

vars == <<homeworks, completions, user_stats, user_trust_scores,
          delete_operations, clock, last, threads, data_lock, files,
          save_tasks>>

\* ----------------------------------------------------------------- helpers
Min(a, b) == IF a < b THEN a ELSE b
Max(a, b) == IF a > b THEN a ELSE b

EmptyDict == [x \in {} |-> 0]
Get(d, k, default) == IF k \in DOMAIN d THEN d[k] ELSE default
Put(d, k, v) == [x \in DOMAIN d \cup {k} |-> IF x = k THEN v ELSE d[x]]

\* SelectSeqIds with the comparison turned round: the target is what stays
SelectSeqIds_KeepsTarget(hws, hw_id) == SelectSeq(hws, LAMBDA hw : hw.id = hw_id)

SelectSeqIds(hws, hw_id) == SelectSeq(hws, LAMBDA hw : hw.id # hw_id)
HasId(hws, hw_id) == \E i \in 1..Len(hws) : hws[i].id = hw_id
HasCode(hws, code) == \E i \in 1..Len(hws) : hws[i].code = code

\* --------------------------------------------------------- trust scoring
\* a fresh statistics record, as update_user_stats creates it
NewStats ==
    [homeworks_added |-> 0, homeworks_completed |-> 0, homeworks_deleted |-> 0,
     delete_reasons |-> [r \in Reasons |-> 0],   \* 0: the key is absent
     reasons_default |-> TRUE,                    \* a defaultdict(int)
     last_actions |-> 0]                          \* length of the history

\* calculate_trust_score with thresholds that are not strict
calculate_trust_score_NotStrict(stats, user_id) ==
    IF user_id \notin DOMAIN stats THEN default_trust_score
    ELSE LET s == stats[user_id]
             n1 == Max(1, s.homeworks_added + s.homeworks_completed)
             n2 == Max(1, s.homeworks_added + s.homeworks_completed
                          + s.homeworks_deleted)
             bonus == IF 10 * s.homeworks_completed >= 7 * n1 THEN 20
                      ELSE IF 10 * s.homeworks_completed >= 3 * n1 THEN 10
                      ELSE 0
             penalty == IF 2 * s.homeworks_deleted >= n2 THEN 30
                        ELSE IF 10 * s.homeworks_deleted >= 3 * n2 THEN 15
                        ELSE 0
         IN  Max(0, Min(100, default_trust_score + bonus - penalty))

\* calculate_trust_score with penalties of 45 and 15
calculate_trust_score_HarderPenalty(stats, user_id) ==
    IF user_id \notin DOMAIN stats THEN default_trust_score
    ELSE LET s == stats[user_id]
             n1 == Max(1, s.homeworks_added + s.homeworks_completed)
             n2 == Max(1, s.homeworks_added + s.homeworks_completed
                          + s.homeworks_deleted)
             bonus == IF 10 * s.homeworks_completed > 7 * n1 THEN 20
                      ELSE IF 10 * s.homeworks_completed > 3 * n1 THEN 10
                      ELSE 0
             penalty == IF 2 * s.homeworks_deleted > n2 THEN 45
                        ELSE IF 10 * s.homeworks_deleted > 3 * n2 THEN 15
                        ELSE 0
         IN  Max(0, Min(100, default_trust_score + bonus - penalty))

\* calculate_trust_score: the score derived from the counters.
\* x / n > 0.7 is 10x > 7n, x / n > 0.3 is 10x > 3n, x / n > 0.5 is 2x > n.
calculate_trust_score(stats, user_id) ==
    IF user_id \notin DOMAIN stats THEN default_trust_score
    ELSE LET s == stats[user_id]
             n1 == Max(1, s.homeworks_added + s.homeworks_completed)
             n2 == Max(1, s.homeworks_added + s.homeworks_completed
                          + s.homeworks_deleted)
             bonus == IF 10 * s.homeworks_completed > 7 * n1 THEN 20
                      ELSE IF 10 * s.homeworks_completed > 3 * n1 THEN 10
                      ELSE 0
             penalty == IF 2 * s.homeworks_deleted > n2 THEN 30
                        ELSE IF 10 * s.homeworks_deleted > 3 * n2 THEN 15
                        ELSE 0
         IN  Max(0, Min(100, default_trust_score + bonus - penalty))

\* ScoreAfter without the upper clamp
ScoreAfter_NoUpperClamp(scores, user_id, action) ==
    LET old == Get(scores, user_id, 70)
    IN  CASE action = "add"      -> old + 2
          [] action = "complete" -> old + 3
          [] action = "delete"   -> Max(0, old - 2)
          [] OTHER               -> old

\* ScoreAfter rewarding a completion like an addition
ScoreAfter_CompleteAsAdd(scores, user_id, action) ==
    LET old == Get(scores, user_id, 70)
    IN  CASE action = "add"      -> Min(100, old + 2)
          [] action = "complete" -> Min(100, old + 2)
          [] action = "delete"   -> Max(0, old - 2)
          [] OTHER               -> old

\* ScoreAfter taking 10 points for a delete
ScoreAfter_DeleteCostsTen(scores, user_id, action) ==
    LET old == Get(scores, user_id, 70)
    IN  CASE action = "add"      -> Min(100, old + 2)
          [] action = "complete" -> Min(100, old + 3)
          [] action = "delete"   -> Max(0, old - 10)
          [] OTHER               -> old

\* update_user_stats, the score part: the fixed delta of the action, clamped
ScoreAfter(scores, user_id, action) ==
    LET old == Get(scores, user_id, 70)
    IN  CASE action = "add"      -> Min(100, old + 2)
          [] action = "complete" -> Min(100, old + 3)
          [] action = "delete"   -> Max(0, old - 2)
          [] OTHER               -> old

UpdateScores(scores, user_id, action) ==
    IF action \in {"add", "complete", "delete"}
    THEN Put(scores, user_id, ScoreAfter(scores, user_id, action))
    ELSE scores

\* update_user_stats, the statistics part: create the record when the user
\* is new, increment the counter, append to the history, keep the last 50
UpdateStats(stats, user_id, action) ==
    LET s == Get(stats, user_id, NewStats)
        counted ==
            CASE action = "add" ->
                   [s EXCEPT !.homeworks_added = @ + 1]
              [] action = "complete" ->
                   [s EXCEPT !.homeworks_completed = @ + 1]
              [] action = "delete" ->
                   [s EXCEPT !.homeworks_deleted = @ + 1]
              [] OTHER -> s
    IN  Put(stats, user_id,
            [counted EXCEPT !.last_actions = Min(MaxHistory, @ + 1)])

\* LastActions keeping the first 50 records
LastActions_KeepsOldest(actions, action, homework_id) ==
    LET all == Append(actions, [action |-> action, homework_id |-> homework_id])
    IN  SubSeq(all, 1, Min(MaxHistory, Len(all)))

\* update_user_stats, lines 153-161: append the record of the action (its
\* timestamp is left out) and keep last_actions[-50:]
LastActions(actions, action, homework_id) ==
    LET all == Append(actions, [action |-> action, homework_id |-> homework_id])
    IN  SubSeq(all, Max(1, Len(all) - MaxHistory + 1), Len(all))

\* update_user_stats with the history kept in full: last_actions is the list
\* of records, where UpdateStats keeps its length
UpdateStatsInFull(stats, user_id, action, homework_id) ==
    LET s == Get(stats, user_id, [NewStats EXCEPT !.last_actions = <<>>])
        counted ==
            CASE action = "add" ->
                   [s EXCEPT !.homeworks_added = @ + 1]
              [] action = "complete" ->
                   [s EXCEPT !.homeworks_completed = @ + 1]
              [] action = "delete" ->
                   [s EXCEPT !.homeworks_deleted = @ + 1]
              [] OTHER -> s
    IN  Put(stats, user_id,
            [counted EXCEPT
                !.last_actions = LastActions(@, action, homework_id)])

RECURSIVE SumOver(_, _)
SumOver(f, keys) ==
    IF keys = {} THEN 0
    ELSE LET k == CHOOSE x \in keys : TRUE
         IN  f[k].homeworks_added + f[k].homeworks_completed
             + f[k].homeworks_deleted + SumOver(f, keys \ {k})
\* the number of actions the statistics have counted
ActionCount(stats) == SumOver(stats, DOMAIN stats)

\* ----------------------------------------------------- delete rate limiter
\* Prune with the age test off by one: a timestamp exactly 3600 seconds old
\* is dropped
Prune_DropsAtBoundary(w, now) ==
    LET RECURSIVE Drop(_)
        Drop(v) == IF v # <<>> /\ now - Head(v) >= Hour THEN Drop(Tail(v)) ELSE v
    IN  Drop(w)

RECURSIVE Prune(_, _)
\* can_user_delete, lines 195-196: drop expired timestamps from the front
Prune(w, now) ==
    IF w # <<>> /\ now - Head(w) > Hour THEN Prune(Tail(w), now) ELSE w

\* Decide with the cap test off by one: a fourth delete passes
Decide_CapOffByOne(w, scores, user_id, now) ==
    LET hour_count == Len(w)
        trust_score == Get(scores, user_id, default_trust_score)
        none == [ok |-> FALSE, message |-> "", hour_count |-> 0, remaining |-> 0]
    IN  IF hour_count > max_per_hour
        THEN [none EXCEPT !.message = "hourly_cap", !.hour_count = hour_count]
        ELSE IF w # <<>> /\ now - w[Len(w)] < Cooldown
        THEN [none EXCEPT !.message = "cooldown",
                !.remaining = (Cooldown - (now - w[Len(w)])) \div TicksPerSecond]
        ELSE IF trust_score < LowTrust
        THEN [none EXCEPT !.message = "low_trust"]
        ELSE [none EXCEPT !.ok = TRUE, !.message = "permitted"]

\* Decide with the cooldown taken in seconds where the rule gives minutes
Decide_CooldownNotInMinutes(w, scores, user_id, now) ==
    LET hour_count == Len(w)
        trust_score == Get(scores, user_id, default_trust_score)
        cooldown == cooldown_minutes * TicksPerSecond
        none == [ok |-> FALSE, message |-> "", hour_count |-> 0, remaining |-> 0]
    IN  IF hour_count >= max_per_hour
        THEN [none EXCEPT !.message = "hourly_cap", !.hour_count = hour_count]
        ELSE IF w # <<>> /\ now - w[Len(w)] < cooldown
        THEN [none EXCEPT !.message = "cooldown",
                !.remaining = (cooldown - (now - w[Len(w)])) \div TicksPerSecond]
        ELSE IF trust_score < LowTrust
        THEN [none EXCEPT !.message = "low_trust"]
        ELSE [none EXCEPT !.ok = TRUE, !.message = "permitted"]

\* Decide without the trust test
Decide_IgnoresTrust(w, scores, user_id, now) ==
    LET hour_count == Len(w)
        none == [ok |-> FALSE, message |-> "", hour_count |-> 0, remaining |-> 0]
    IN  IF hour_count >= max_per_hour
        THEN [none EXCEPT !.message = "hourly_cap", !.hour_count = hour_count]
        ELSE IF w # <<>> /\ now - w[Len(w)] < Cooldown
        THEN [none EXCEPT !.message = "cooldown",
                !.remaining = (Cooldown - (now - w[Len(w)])) \div TicksPerSecond]
        ELSE [none EXCEPT !.ok = TRUE, !.message = "permitted"]

\* can_user_delete, lines 212-217: the daily cap of the tier of the score.
\* The function assigns it to a local it never reads.
max_daily(trust_score) ==
    IF trust_score < 60 THEN 3
    ELSE IF trust_score < 80 THEN 6
    ELSE max_per_day

\* Decide with the cap of the tier in the place of the hourly cap
Decide_TierAsCap(w, scores, user_id, now) ==
    LET hour_count == Len(w)
        trust_score == Get(scores, user_id, default_trust_score)
        none == [ok |-> FALSE, message |-> "", hour_count |-> 0, remaining |-> 0]
    IN  IF hour_count >= max_daily(trust_score)
        THEN [none EXCEPT !.message = "hourly_cap", !.hour_count = hour_count]
        ELSE IF w # <<>> /\ now - w[Len(w)] < Cooldown
        THEN [none EXCEPT !.message = "cooldown",
                !.remaining = (Cooldown - (now - w[Len(w)])) \div TicksPerSecond]
        ELSE IF trust_score < LowTrust
        THEN [none EXCEPT !.message = "low_trust"]
        ELSE [none EXCEPT !.ok = TRUE, !.message = "permitted"]

\* Decide with a cooldown one tick short
Decide_CooldownShort(w, scores, user_id, now) ==
    LET hour_count == Len(w)
        trust_score == Get(scores, user_id, default_trust_score)
        none == [ok |-> FALSE, message |-> "", hour_count |-> 0, remaining |-> 0]
    IN  IF hour_count >= max_per_hour
        THEN [none EXCEPT !.message = "hourly_cap", !.hour_count = hour_count]
        ELSE IF w # <<>> /\ now - w[Len(w)] < Cooldown - 1
        THEN [none EXCEPT !.message = "cooldown",
                !.remaining = (Cooldown - (now - w[Len(w)])) \div TicksPerSecond]
        ELSE IF trust_score < LowTrust
        THEN [none EXCEPT !.message = "low_trust"]
        ELSE [none EXCEPT !.ok = TRUE, !.message = "permitted"]

\* Decide with the trust test first
Decide_TrustFirst(w, scores, user_id, now) ==
    LET hour_count == Len(w)
        trust_score == Get(scores, user_id, default_trust_score)
        none == [ok |-> FALSE, message |-> "", hour_count |-> 0, remaining |-> 0]
    IN  IF trust_score < LowTrust
        THEN [none EXCEPT !.message = "low_trust"]
        ELSE IF hour_count >= max_per_hour
        THEN [none EXCEPT !.message = "hourly_cap", !.hour_count = hour_count]
        ELSE IF w # <<>> /\ now - w[Len(w)] < Cooldown
        THEN [none EXCEPT !.message = "cooldown",
                !.remaining = (Cooldown - (now - w[Len(w)])) \div TicksPerSecond]
        ELSE [none EXCEPT !.ok = TRUE, !.message = "permitted"]

\* can_user_delete, lines 198-221, on the pruned window w
Decide(w, scores, user_id, now) ==
    LET hour_count == Len(w)
        trust_score == Get(scores, user_id, default_trust_score)
        none == [ok |-> FALSE, message |-> "", hour_count |-> 0, remaining |-> 0]
    IN  IF hour_count >= max_per_hour
        THEN [none EXCEPT !.message = "hourly_cap", !.hour_count = hour_count]
        ELSE IF w # <<>> /\ now - w[Len(w)] < Cooldown
        THEN [none EXCEPT !.message = "cooldown",
                !.remaining = (Cooldown - (now - w[Len(w)])) \div TicksPerSecond]
        ELSE IF trust_score < LowTrust
        THEN [none EXCEPT !.message = "low_trust"]
        ELSE [none EXCEPT !.ok = TRUE, !.message = "permitted"]

can_user_delete(windows, scores, user_id, now) ==
    Decide(Prune(windows[user_id], now), scores, user_id, now)

\* ------------------------------------------------------------- persistence
\* a statistics record as json.loads returns it: the reason tally is a plain
\* dict holding the reasons used so far
StoredStats(a, c, d, tally) ==
    [homeworks_added |-> a, homeworks_completed |-> c, homeworks_deleted |-> d,
     delete_reasons |-> tally, reasons_default |-> FALSE,
     last_actions |-> Min(MaxHistory, a + c + d)]

Tally(n1, n2) == [r \in Reasons |-> IF r = "duplicate" THEN n1 ELSE n2]

StoredHomeworks(n) == [i \in 1..n |-> [id |-> i, code |-> i]]

\* contents of the three files when the process starts.  save_task writes
\* the homework file first and the statistics file last, in a daemon thread
\* that dies with the process, so the homework file may hold homeworks whose
\* addition the statistics file never counted.
DiskImages ==
    { \* no file yet
      [homeworks |-> <<>>, completions |-> EmptyDict, user_stats |-> EmptyDict],
      \* u1 deleted a homework as a duplicate
      [homeworks |-> StoredHomeworks(1),
       completions |-> EmptyDict,
       user_stats |-> Put(EmptyDict, "u1", StoredStats(0, 0, 1, Tally(1, 0)))],
      \* u1 completed the homework
      [homeworks |-> StoredHomeworks(1),
       completions |-> Put(EmptyDict, "u1", Put(EmptyDict, 1, TRUE)),
       user_stats |-> Put(EmptyDict, "u1", StoredStats(0, 1, 0, Tally(0, 0)))] }

\* the files after u2 added NumStored + 1 homeworks and completed the first,
\* and either u1 deleted one of them as a duplicate or u1 was never seen
LongRunImages ==
    { [homeworks |-> StoredHomeworks(NumStored),
       completions |-> Put(EmptyDict, "u2", Put(EmptyDict, 1, TRUE)),
       user_stats |-> Put(Put(EmptyDict, "u1", StoredStats(0, 0, 1, Tally(1, 0))),
                          "u2", StoredStats(NumStored + 1, 1, 0, Tally(0, 0)))],
      [homeworks |-> StoredHomeworks(NumStored),
       completions |-> Put(EmptyDict, "u2", Put(EmptyDict, 1, TRUE)),
       user_stats |-> Put(EmptyDict, "u2",
                          StoredStats(NumStored, 1, 0, Tally(0, 0)))] }

\* SeededScores seeding only the users of the statistics file
SeededScores_StatsOnly(disk) ==
    [u \in DOMAIN disk.user_stats |-> calculate_trust_score(disk.user_stats, u)]

\* load_data, lines 69-71: seed the score of every user of either file
SeededScores(disk) ==
    [u \in DOMAIN disk.completions \cup DOMAIN disk.user_stats |->
        calculate_trust_score(disk.user_stats, u)]

\* data_lock when no thread holds it, when the request of worker thread t
\* holds it, and when the i-th save task holds it
Free == [kind |-> "free", thread |-> "", task |-> 0]
HeldByRequest(t) == [kind |-> "request", thread |-> t, task |-> 0]
HeldBySave(i) == [kind |-> "save", thread |-> "", task |-> i]

\* a worker thread that handles no request
Idle == [pc |-> "idle", user |-> "", hw_id |-> 0, reason |-> ""]

NoRequest ==
    [success |-> TRUE, message |-> "none", hour_count |-> 0, remaining |-> 0]

\* load_data: the module-level state after the call at import (line 278)
load_data(disk) ==
    /\ homeworks = disk.homeworks
    /\ completions = disk.completions
    /\ user_stats = disk.user_stats
    /\ user_trust_scores = SeededScores(disk)
    /\ delete_operations = [u \in Users |-> <<>>]
    /\ clock = 0
    /\ last = NoRequest
    /\ threads = [t \in Threads |-> Idle]
    /\ data_lock = Free
    /\ files = [homeworks |-> disk.homeworks, completions |-> disk.completions,
                user_stats |-> disk.user_stats, garbled |-> {}]
    /\ save_tasks = <<>>

Init == \E disk \in DiskImages : load_data(disk)

\* ---------------------------------------------------------------- requests
Response(success, message) ==
    [NoRequest EXCEPT !.success = success, !.message = message]

\* POST /api/add.  filled: the four fields of the form are all present
add_homework(user_id, code, filled) ==
    IF ~filled
    THEN /\ last' = Response(FALSE, "fields_missing")
         /\ UNCHANGED <<homeworks, completions, user_stats, user_trust_scores,
                        delete_operations, clock>>
    ELSE IF HasCode(homeworks, code)
    THEN /\ last' = Response(FALSE, "code_exists")
         /\ UNCHANGED <<homeworks, completions, user_stats, user_trust_scores,
                        delete_operations, clock>>
    ELSE /\ homeworks' = Append(homeworks, [id |-> Len(homeworks) + 1, code |-> code])
         /\ user_stats' = UpdateStats(user_stats, user_id, "add")
         /\ user_trust_scores' = UpdateScores(user_trust_scores, user_id, "add")
         /\ last' = Response(TRUE, "added")
         /\ UNCHANGED <<completions, delete_operations, clock>>

\* POST /api/complete/<hw_id>
complete_homework(user_id, hw_id) ==
    /\ completions' = Put(completions, user_id,
                          Put(Get(completions, user_id, EmptyDict), hw_id, TRUE))
    /\ user_stats' = UpdateStats(user_stats, user_id, "complete")
    /\ user_trust_scores' = UpdateScores(user_trust_scores, user_id, "complete")
    /\ last' = Response(TRUE, "completed")
    /\ UNCHANGED <<homeworks, delete_operations, clock>>

\* POST /api/incomplete/<hw_id>
incomplete_homework(user_id, hw_id) ==
    /\ completions' =
         IF user_id \in DOMAIN completions /\ hw_id \in DOMAIN completions[user_id]
         THEN [completions EXCEPT ![user_id][hw_id] = FALSE]
         ELSE completions
    /\ last' = Response(TRUE, "incompleted")
    /\ UNCHANGED <<homeworks, user_stats, user_trust_scores, delete_operations,
                   clock>>

\* check_delete_limits recording the check in the window as a delete
check_delete_limits_RecordsCheck(user_id, now) ==
    LET w == Prune(delete_operations[user_id], now)
        verdict == Decide(w, user_trust_scores, user_id, now)
    IN  /\ now >= clock
        /\ clock' = now
        /\ delete_operations' = [delete_operations EXCEPT ![user_id] = Append(w, now)]
        /\ last' = [Response(TRUE, verdict.message)
                        EXCEPT !.hour_count = verdict.hour_count,
                               !.remaining = verdict.remaining]
        /\ UNCHANGED <<homeworks, completions, user_stats, user_trust_scores>>

\* GET /api/check-delete-limits, at time now: success with canDelete and the
\* message of can_user_delete
check_delete_limits(user_id, now) ==
    LET w == Prune(delete_operations[user_id], now)
        verdict == Decide(w, user_trust_scores, user_id, now)
    IN  /\ now >= clock
        /\ clock' = now
        /\ delete_operations' = [delete_operations EXCEPT ![user_id] = w]
        /\ last' = [Response(TRUE, verdict.message)
                        EXCEPT !.hour_count = verdict.hour_count,
                               !.remaining = verdict.remaining]
        /\ UNCHANGED <<homeworks, completions, user_stats, user_trust_scores>>

\* DropCompletions emptying the map of every user who had a record of hw_id
DropCompletions_ClearsUser(comps, hw_id) ==
    [u \in DOMAIN comps |->
        IF hw_id \in DOMAIN comps[u] THEN EmptyDict ELSE comps[u]]

\* delete_homework, lines 1250-1253: drop the record of hw_id of every user
DropCompletions(comps, hw_id) ==
    [u \in DOMAIN comps |->
        [h \in DOMAIN comps[u] \ {hw_id} |-> comps[u][h]]]

\* delete_homework, line 1261: tally[reason] += 1.  A plain dict (loaded from
\* the file) raises KeyError when the reason is not yet a key of it.
TallyRaises(s, reason) == ~s.reasons_default /\ s.delete_reasons[reason] = 0

\* DeleteOutcome going on after the limiter said no
DeleteOutcome_IgnoresDenial(verdict, reason, hws, hw_id) ==
    IF reason = "" THEN "no_reason"
    ELSE IF ~HasId(hws, hw_id) THEN "not_found"
    ELSE "apply"

\* DeleteOutcome without the lookup of the homework
DeleteOutcome_SkipsLookup(verdict, reason, hws, hw_id) ==
    IF ~verdict.ok THEN "denied"
    ELSE IF reason = "" THEN "no_reason"
    ELSE "apply"

\* DeleteOutcome without the check of the reason
DeleteOutcome_SkipsReason(verdict, reason, hws, hw_id) ==
    IF ~verdict.ok THEN "denied"
    ELSE IF ~HasId(hws, hw_id) THEN "not_found"
    ELSE "apply"

\* delete_homework, lines 1227-1245: the checks in the order of the code,
\* each one returning early
DeleteOutcome(verdict, reason, hws, hw_id) ==
    IF ~verdict.ok THEN "denied"
    ELSE IF reason = "" THEN "no_reason"
    ELSE IF ~HasId(hws, hw_id) THEN "not_found"
    ELSE "apply"

\* POST /api/delete/<hw_id>: can_user_delete reads the time now, and
\* record_delete_operation reads it again, at now2
delete_homework(user_id, hw_id, reason, now, now2) ==
    LET w == Prune(delete_operations[user_id], now)
        verdict == Decide(w, user_trust_scores, user_id, now)
        outcome == DeleteOutcome(verdict, reason, homeworks, hw_id)
        stats == UpdateStats(user_stats, user_id, "delete")
    IN  /\ now >= clock
        /\ now2 >= now
        /\ IF outcome # "apply"
           THEN /\ last' = IF outcome = "denied"
                           THEN [Response(FALSE, verdict.message)
                                    EXCEPT !.hour_count = verdict.hour_count,
                                           !.remaining = verdict.remaining]
                           ELSE Response(FALSE, outcome)
                /\ delete_operations' = [delete_operations EXCEPT ![user_id] = w]
                /\ clock' = now
                /\ UNCHANGED <<homeworks, completions, user_stats,
                               user_trust_scores>>
           ELSE /\ homeworks' = SelectSeqIds(homeworks, hw_id)
                /\ completions' = DropCompletions(completions, hw_id)
                /\ delete_operations' =
                     [delete_operations EXCEPT ![user_id] = Append(w, now2)]
                /\ clock' = now2
                /\ user_trust_scores' =
                     UpdateScores(user_trust_scores, user_id, "delete")
                /\ IF reason = ""     \* line 1260: no reason, no tally
                   THEN /\ user_stats' = stats
                        /\ last' = Response(TRUE, "deleted")
                   ELSE IF TallyRaises(stats[user_id], reason)
                   THEN /\ user_stats' = stats
                        /\ last' = Response(FALSE, "KeyError")
                   ELSE /\ user_stats' =
                             [stats EXCEPT ![user_id].delete_reasons[reason] = @ + 1]
                        /\ last' = Response(TRUE, "deleted")

\* ------------------------------------------------------- the specifications
\* the instants record_delete_operation can read after can_user_delete read now
Later(now, times) == { t \in times : now <= t /\ t <= now + MaxLatency }
WithinBudget(bound) == ActionCount(user_stats') <= bound

\* Spec: requests of both users, handled one at a time, in the first cooldown
Add == \E u \in Users, code \in Codes, filled \in BOOLEAN :
           /\ add_homework(u, code, filled)
           /\ WithinBudget(MaxActions)
           /\ UNCHANGED <<threads, Storage>>
Complete == \E u \in Users, hw_id \in HwIds :
           /\ complete_homework(u, hw_id)
           /\ WithinBudget(MaxActions)
           /\ UNCHANGED <<threads, Storage>>
Incomplete == \E u \in Users, hw_id \in HwIds :
           incomplete_homework(u, hw_id) /\ UNCHANGED <<threads, Storage>>
Check == \E u \in Users, now \in ShortTimes :
           check_delete_limits(u, now) /\ UNCHANGED <<threads, Storage>>
Delete == \E u \in Users, hw_id \in HwIds, reason \in ReasonInputs,
             now \in ShortTimes :
              \E now2 \in Later(now, ShortTimes) :
                 /\ delete_homework(u, hw_id, reason, now, now2)
                 /\ WithinBudget(MaxActions)
                 /\ UNCHANGED <<threads, Storage>>

Next == Add \/ Complete \/ Incomplete \/ Check \/ Delete

Spec == Init /\ [][Next]_vars

\* SpecScore: requests that record an action, as many as it takes a seeded
\* score to reach the upper clamp
ScoreAdd == \E u \in Users, code \in Codes :
           /\ add_homework(u, code, TRUE)
           /\ WithinBudget(MaxScoreActions)
           /\ UNCHANGED <<threads, Storage>>
ScoreComplete == \E u \in Users :
           /\ complete_homework(u, 1)
           /\ WithinBudget(MaxScoreActions)
           /\ UNCHANGED <<threads, Storage>>
ScoreDelete == \E u \in Users, hw_id \in HwIds, now \in ShortTimes :
           /\ delete_homework(u, hw_id, "duplicate", now, now)
           /\ WithinBudget(MaxScoreActions)
           /\ UNCHANGED <<threads, Storage>>

NextScore == ScoreAdd \/ ScoreComplete \/ ScoreDelete

SpecScore == Init /\ [][NextScore]_vars

\* SpecLongRun: the delete requests of one user over several hours, on a
\* stored collection; each request names the first homework listed or one
\* that does not exist
InitLongRun == \E disk \in LongRunImages : load_data(disk)

Targets(hws) == {0} \cup (IF hws = <<>> THEN {} ELSE {Head(hws).id})

LongRunCheck == \E now \in Times :
    check_delete_limits("u1", now) /\ UNCHANGED <<threads, Storage>>
LongRunDelete ==
    \E hw_id \in Targets(homeworks), reason \in {"duplicate", ""}, now \in Times :
        \E now2 \in Later(now, Times) :
            /\ delete_homework("u1", hw_id, reason, now, now2)
            /\ UNCHANGED <<threads, Storage>>

NextLongRun == LongRunCheck \/ LongRunDelete

SpecLongRun == InitLongRun /\ [][NextLongRun]_vars

\* SpecFrame: adds and deletes of both users on a stored collection of two
\* homeworks with completion records, in the first cooldown.  u1 added and
\* completed both homeworks; u2 is unseen, or completed the first one in a
\* process that ended before save_task wrote the statistics.
FrameImages ==
    { [homeworks |-> StoredHomeworks(2),
       completions |-> Put(comps, "u1", Put(Put(EmptyDict, 1, TRUE), 2, TRUE)),
       user_stats |-> Put(EmptyDict, "u1", StoredStats(2, 2, 0, Tally(0, 0)))] :
      comps \in { EmptyDict, Put(EmptyDict, "u2", Put(EmptyDict, 1, TRUE)) } }

InitFrame == \E disk \in FrameImages : load_data(disk)

\* a client submits the homework coded 1 again once it was deleted
FrameAdd == \E u \in Users :
    add_homework(u, 1, TRUE) /\ UNCHANGED <<threads, Storage>>
FrameDelete ==
    \E u \in Users, hw_id \in HwIds, reason \in ReasonInputs, now \in ShortTimes :
        \E now2 \in Later(now, ShortTimes) :
            /\ delete_homework(u, hw_id, reason, now, now2)
            /\ UNCHANGED <<threads, Storage>>

NextFrame == FrameAdd \/ FrameDelete

SpecFrame == InitFrame /\ [][NextFrame]_vars

\* SpecRecompute: the process starts on a statistics file in which the
\* counters of u1 have any values up to MaxCount; u2 has a completion record
\* and no statistics.  load_data derives the scores; the users then look at
\* their limits.
RecomputeImages ==
    { [homeworks |-> <<>>,
       completions |-> Put(EmptyDict, "u2", Put(EmptyDict, 1, TRUE)),
       user_stats |-> Put(EmptyDict, "u1", StoredStats(a, c, d, Tally(d, 0)))] :
      a \in 0..MaxCount, c \in 0..MaxCount, d \in 0..MaxCount }

InitRecompute == \E disk \in RecomputeImages : load_data(disk)

RecomputeCheck == \E u \in Users :
    check_delete_limits(u, clock) /\ UNCHANGED <<threads, Storage>>

SpecRecompute == InitRecompute /\ [][RecomputeCheck]_vars

\* SpecHistory: calls of update_user_stats, one after another, on histories
\* kept in full.  The statistics file holds for u1 a history of additions
\* that is full or nearly so; u2 is unseen.
StoredLog(n) == [i \in 1..n |-> [action |-> "add", homework_id |-> i]]

HistoryImages ==
    { [homeworks |-> StoredHomeworks(n),
       completions |-> EmptyDict,
       user_stats |-> Put(EmptyDict, "u1",
                          [StoredStats(n, 0, 0, Tally(0, 0))
                              EXCEPT !.last_actions = StoredLog(n)])] :
      n \in (MaxHistory - HistoryMargin)..MaxHistory }

InitHistory == \E disk \in HistoryImages : load_data(disk)

\* update_user_stats(user_id, action, homework_id)
RecordAction(user_id, action, homework_id) ==
    /\ user_stats' = UpdateStatsInFull(user_stats, user_id, action, homework_id)
    /\ user_trust_scores' = UpdateScores(user_trust_scores, user_id, action)
    /\ UNCHANGED <<homeworks, completions, delete_operations, clock, last,
                   threads, Storage>>

HistoryRecord ==
    \E u \in Users, action \in {"add", "complete", "delete"} :
        /\ RecordAction(u, action, 1)
        /\ WithinBudget(MaxHistory + HistoryMargin)

SpecHistory == InitHistory /\ [][HistoryRecord]_vars

\* SpecThreads: delete requests handled by two worker threads.  A thread
\* runs delete_homework in four steps; the other thread may run between any
\* two of them.  Only the third of them (lines 1236-1253) holds data_lock.
\* lines 1224-1234: can_user_delete, then the check of the reason
ThreadCheck(t, user_id, hw_id, reason, now) ==
    LET w == Prune(delete_operations[user_id], now)
        verdict == Decide(w, user_trust_scores, user_id, now)
    IN  /\ threads[t].pc = "idle"
        /\ now >= clock
        /\ clock' = now
        /\ delete_operations' = [delete_operations EXCEPT ![user_id] = w]
        /\ IF ~verdict.ok
           THEN /\ last' = [Response(FALSE, verdict.message)
                               EXCEPT !.hour_count = verdict.hour_count,
                                      !.remaining = verdict.remaining]
                /\ UNCHANGED threads
           ELSE IF reason = ""
           THEN /\ last' = Response(FALSE, "no_reason")
                /\ UNCHANGED threads
           ELSE /\ threads' = [threads EXCEPT ![t] =
                      [pc |-> "locked", user |-> user_id, hw_id |-> hw_id,
                       reason |-> reason]]
                /\ UNCHANGED last
        /\ UNCHANGED <<homeworks, completions, user_stats, user_trust_scores>>

\* lines 1236-1253, under data_lock: look the homework up and remove it
ThreadLocked(t) ==
    LET hw_id == threads[t].hw_id
    IN  /\ threads[t].pc = "locked"
        /\ IF ~HasId(homeworks, hw_id)
           THEN /\ last' = Response(FALSE, "not_found")
                /\ threads' = [threads EXCEPT ![t] = Idle]
                /\ UNCHANGED <<homeworks, completions>>
           ELSE /\ homeworks' = SelectSeqIds(homeworks, hw_id)
                /\ completions' = DropCompletions(completions, hw_id)
                /\ threads' = [threads EXCEPT ![t].pc = "record"]
                /\ UNCHANGED last
        /\ UNCHANGED <<user_stats, user_trust_scores, delete_operations, clock>>

\* line 1256: record_delete_operation, at time now2
ThreadRecord(t, now2) ==
    /\ threads[t].pc = "record"
    /\ now2 >= clock
    /\ clock' = now2
    /\ delete_operations' =
         [delete_operations EXCEPT ![threads[t].user] = Append(@, now2)]
    /\ threads' = [threads EXCEPT ![t].pc = "stats"]
    /\ UNCHANGED <<homeworks, completions, user_stats, user_trust_scores, last>>

\* lines 1259-1264: update_user_stats, the tally of the reason, the response
ThreadStats(t) ==
    LET user_id == threads[t].user
        reason == threads[t].reason
        stats == UpdateStats(user_stats, user_id, "delete")
    IN  /\ threads[t].pc = "stats"
        /\ user_trust_scores' = UpdateScores(user_trust_scores, user_id, "delete")
        /\ IF reason = ""     \* line 1260: no reason, no tally
           THEN /\ user_stats' = stats
                /\ last' = Response(TRUE, "deleted")
           ELSE IF TallyRaises(stats[user_id], reason)
           THEN /\ user_stats' = stats
                /\ last' = Response(FALSE, "KeyError")
           ELSE /\ user_stats' =
                     [stats EXCEPT ![user_id].delete_reasons[reason] = @ + 1]
                /\ last' = Response(TRUE, "deleted")
        /\ threads' = [threads EXCEPT ![t] = Idle]
        /\ UNCHANGED <<homeworks, completions, delete_operations, clock>>

TCheck == \E t \in Threads, u \in Users, hw_id \in HwIds,
             reason \in ReasonInputs, now \in ShortTimes :
              ThreadCheck(t, u, hw_id, reason, now) /\ UNCHANGED Storage
TLocked == \E t \in Threads : ThreadLocked(t) /\ UNCHANGED Storage
TRecord == \E t \in Threads, now2 \in ShortTimes :
              ThreadRecord(t, now2) /\ UNCHANGED Storage
TStats == \E t \in Threads : ThreadStats(t) /\ UNCHANGED Storage

NextThreads == TCheck \/ TLocked \/ TRecord \/ TStats

SpecThreads == InitLongRun /\ [][NextThreads]_vars

\* SpecSave: complete requests handled by the worker threads, statement by
\* statement, and the save_task threads they start.  The other
\* specifications do not follow the files: there data_lock, files and
\* save_tasks stay as load_data left them.
\* json.dump of the statistics: a defaultdict is written as a plain dict
Dump(stats) == [u \in DOMAIN stats |-> [stats[u] EXCEPT !.reasons_default = FALSE]]

\* a save task started by the request of thread t, before its snapshot
NewTask(t) == [pc |-> "start", by |-> t, homeworks |-> <<>>,
               completion_keys |-> {}, stats_keys |-> {}]

WritePcs == {"write_homeworks", "write_completions", "write_stats"}

\* complete_homework, line 1183: enter `with data_lock`
CompleteAcquire(t, user_id, hw_id) ==
    /\ threads[t].pc = "idle"
    /\ data_lock = Free
    /\ data_lock' = HeldByRequest(t)
    /\ threads' = [threads EXCEPT ![t] =
           [pc |-> "locked", user |-> user_id, hw_id |-> hw_id, reason |-> ""]]
    /\ UNCHANGED <<homeworks, completions, user_stats, user_trust_scores,
                   delete_operations, clock, last, files, save_tasks>>

\* lines 1184-1190: set the completion record, leave the lock
CompleteLocked(t) ==
    LET user_id == threads[t].user
    IN  /\ threads[t].pc = "locked"
        /\ data_lock = HeldByRequest(t)
        /\ completions' =
             Put(completions, user_id,
                 Put(Get(completions, user_id, EmptyDict), threads[t].hw_id, TRUE))
        /\ data_lock' = Free
        /\ threads' = [threads EXCEPT ![t].pc = "stats"]
        /\ UNCHANGED <<homeworks, user_stats, user_trust_scores,
                       delete_operations, clock, last, files, save_tasks>>

\* line 1193: update_user_stats
CompleteStats(t) ==
    /\ threads[t].pc = "stats"
    /\ user_stats' = UpdateStats(user_stats, threads[t].user, "complete")
    /\ user_trust_scores' =
         UpdateScores(user_trust_scores, threads[t].user, "complete")
    /\ threads' = [threads EXCEPT ![t].pc = "save"]
    /\ UNCHANGED <<homeworks, completions, delete_operations, clock, last,
                   data_lock, files, save_tasks>>

\* line 1194: async_save_data starts a save_task thread (lines 107-108) and
\* comes back at once, there is no join
CompleteSave(t) ==
    /\ threads[t].pc = "save"
    /\ save_tasks' = Append(save_tasks, NewTask(t))
    /\ threads' = [threads EXCEPT ![t].pc = "return"]
    /\ UNCHANGED <<homeworks, completions, user_stats, user_trust_scores,
                   delete_operations, clock, last, data_lock, files>>

\* line 1195: the response
CompleteReturn(t) ==
    /\ threads[t].pc = "return"
    /\ last' = Response(TRUE, "completed")
    /\ threads' = [threads EXCEPT ![t] = Idle]
    /\ UNCHANGED <<homeworks, completions, user_stats, user_trust_scores,
                   delete_operations, clock, data_lock, files, save_tasks>>

\* save_task, line 86: enter `with data_lock`
SaveAcquire(i) ==
    /\ save_tasks[i].pc = "start"
    /\ data_lock = Free
    /\ data_lock' = HeldBySave(i)
    /\ save_tasks' = [save_tasks EXCEPT ![i].pc = "locked"]
    /\ UNCHANGED <<homeworks, completions, user_stats, user_trust_scores,
                   delete_operations, clock, last, threads, files>>

\* SaveSnapshot keeping the lock for the writes
SaveSnapshot_KeepsLock(i) ==
    /\ save_tasks[i].pc = "locked"
    /\ data_lock = HeldBySave(i)
    /\ save_tasks' = [save_tasks EXCEPT ![i] =
           [pc |-> "write_homeworks", by |-> save_tasks[i].by,
            homeworks |-> homeworks,
            completion_keys |-> DOMAIN completions,
            stats_keys |-> DOMAIN user_stats]]
    /\ UNCHANGED <<homeworks, completions, user_stats, user_trust_scores,
                   delete_operations, clock, last, threads, files, data_lock>>

\* lines 87-89: the three .copy() calls, then the lock is left.  The copies
\* are shallow: the list of homeworks and the keys of the two dicts are
\* those of this moment, the inner dicts stay shared with the handlers
SaveSnapshot(i) ==
    /\ save_tasks[i].pc = "locked"
    /\ data_lock = HeldBySave(i)
    /\ data_lock' = Free
    /\ save_tasks' = [save_tasks EXCEPT ![i] =
           [pc |-> "write_homeworks", by |-> save_tasks[i].by,
            homeworks |-> homeworks,
            completion_keys |-> DOMAIN completions,
            stats_keys |-> DOMAIN user_stats]]
    /\ UNCHANGED <<homeworks, completions, user_stats, user_trust_scores,
                   delete_operations, clock, last, threads, files>>

\* lines 92-101: one of the three json.dump calls, in their order; the last
\* one ends the task (line 103)
SaveWrite(i) ==
    LET task == save_tasks[i]
    IN  /\ task.pc \in WritePcs
        /\ CASE task.pc = "write_homeworks" ->
                  /\ files' = [files EXCEPT !.homeworks = task.homeworks,
                                            !.garbled = @ \ {"homeworks"}]
                  /\ save_tasks' = [save_tasks EXCEPT ![i].pc = "write_completions"]
             [] task.pc = "write_completions" ->
                  /\ files' = [files EXCEPT
                        !.completions = [u \in task.completion_keys |-> completions[u]],
                        !.garbled = @ \ {"completions"}]
                  /\ save_tasks' = [save_tasks EXCEPT ![i].pc = "write_stats"]
             [] task.pc = "write_stats" ->
                  /\ files' = [files EXCEPT
                        !.user_stats = Dump([u \in task.stats_keys |-> user_stats[u]]),
                        !.garbled = @ \ {"user_stats"}]
                  /\ save_tasks' = [save_tasks EXCEPT ![i].pc = "done"]
        /\ UNCHANGED <<homeworks, completions, user_stats, user_trust_scores,
                       delete_operations, clock, last, threads, data_lock>>

\* the file a write step writes
FileOf(pc) ==
    CASE pc = "write_homeworks" -> "homeworks"
      [] pc = "write_completions" -> "completions"
      [] OTHER -> "user_stats"

\* SaveFail with the handler of load_data (lines 76-80), which empties memory
SaveFail_ResetsMemory(i, truncated) ==
    /\ save_tasks[i].pc \in WritePcs
    /\ save_tasks' = [save_tasks EXCEPT ![i].pc = "failed"]
    /\ files' = IF truncated
                THEN [files EXCEPT !.garbled = @ \cup {FileOf(save_tasks[i].pc)}]
                ELSE files
    /\ homeworks' = <<>>
    /\ completions' = EmptyDict
    /\ user_stats' = EmptyDict
    /\ UNCHANGED <<user_trust_scores, delete_operations, clock, last, threads,
                   data_lock>>

\* lines 104-105: a write raises; the exception is printed and the task
\* ends.  truncated: open(..., 'w') had emptied the file before
SaveFail(i, truncated) ==
    /\ save_tasks[i].pc \in WritePcs
    /\ save_tasks' = [save_tasks EXCEPT ![i].pc = "failed"]
    /\ files' = IF truncated
                THEN [files EXCEPT !.garbled = @ \cup {FileOf(save_tasks[i].pc)}]
                ELSE files
    /\ UNCHANGED <<homeworks, completions, user_stats, user_trust_scores,
                   delete_operations, clock, last, threads, data_lock>>

\* the save tasks started and the requests on their way to start one
Started ==
    Len(save_tasks)
    + Cardinality({t \in Threads : threads[t].pc \in {"locked", "stats", "save"}})

SAcquire == \E t \in Threads, u \in Users :
    Started < MaxSaves /\ CompleteAcquire(t, u, 1)
SLocked == \E t \in Threads : CompleteLocked(t)
SStats == \E t \in Threads : CompleteStats(t)
SSave == \E t \in Threads : CompleteSave(t)
SReturn == \E t \in Threads : CompleteReturn(t)
SSaveAcquire == \E i \in 1..Len(save_tasks) : SaveAcquire(i)
SSaveSnapshot == \E i \in 1..Len(save_tasks) : SaveSnapshot(i)
SSaveWrite == \E i \in 1..Len(save_tasks) : SaveWrite(i)
SSaveFail == \E i \in 1..Len(save_tasks), truncated \in BOOLEAN :
    SaveFail(i, truncated)

NextSave == \/ SAcquire \/ SLocked \/ SStats \/ SSave \/ SReturn
            \/ SSaveAcquire \/ SSaveSnapshot \/ SSaveWrite \/ SSaveFail

SpecSave == Init /\ [][NextSave]_vars

\* SpecRace: two worker threads each run update_user_stats once, for the
\* request they have just applied; the call is outside data_lock, so the
\* threads alternate between its statements.  A thread that has returned
\* keeps the record of its call.
\* update_user_stats, lines 140-151: the counter of the action
CountAction(s, action) ==
    CASE action = "add"      -> [s EXCEPT !.homeworks_added = @ + 1]
      [] action = "complete" -> [s EXCEPT !.homeworks_completed = @ + 1]
      [] action = "delete"   -> [s EXCEPT !.homeworks_deleted = @ + 1]
      [] OTHER               -> s

\* line 125: the call update_user_stats(user_id, action, ...)
RaceCall(t, user_id, action) ==
    /\ threads[t].pc = "idle"
    /\ threads' = [threads EXCEPT ![t] =
           [pc |-> "check", user |-> user_id, action |-> action, seen |-> 0]]
    /\ UNCHANGED <<homeworks, completions, user_stats, user_trust_scores,
                   delete_operations, clock, last, Storage>>

\* line 127: is the user known?
RaceCheck(t) ==
    /\ threads[t].pc = "check"
    /\ threads' = [threads EXCEPT ![t].pc =
           IF threads[t].user \in DOMAIN user_stats THEN "count" ELSE "create"]
    /\ UNCHANGED <<homeworks, completions, user_stats, user_trust_scores,
                   delete_operations, clock, last, Storage>>

\* lines 128-136: store a fresh record for the user
RaceCreate(t) ==
    /\ threads[t].pc = "create"
    /\ user_stats' = Put(user_stats, threads[t].user, NewStats)
    /\ threads' = [threads EXCEPT ![t].pc = "count"]
    /\ UNCHANGED <<homeworks, completions, user_trust_scores,
                   delete_operations, clock, last, Storage>>

\* lines 138-150: the counter of the action is incremented
RaceCount(t) ==
    /\ threads[t].pc = "count"
    /\ user_stats' = [user_stats EXCEPT
           ![threads[t].user] = CountAction(@, threads[t].action)]
    /\ threads' = [threads EXCEPT ![t].pc = "read"]
    /\ UNCHANGED <<homeworks, completions, user_trust_scores,
                   delete_operations, clock, last, Storage>>

\* lines 143, 147, 151: the call user_trust_scores.get(user_id, 70)
RaceRead(t) ==
    /\ threads[t].pc = "read"
    /\ threads' = [threads EXCEPT
           ![t].pc = "write",
           ![t].seen = Get(user_trust_scores, threads[t].user, 70)]
    /\ UNCHANGED <<homeworks, completions, user_stats, user_trust_scores,
                   delete_operations, clock, last, Storage>>

\* lines 143, 147, 151: the call of min or max and the assignment
RaceWrite(t) ==
    LET user_id == threads[t].user
    IN  /\ threads[t].pc = "write"
        /\ user_trust_scores' =
             Put(user_trust_scores, user_id,
                 ScoreAfter(Put(EmptyDict, user_id, threads[t].seen),
                            user_id, threads[t].action))
        /\ threads' = [threads EXCEPT ![t].pc = "log"]
        /\ UNCHANGED <<homeworks, completions, user_stats, delete_operations,
                       clock, last, Storage>>

\* lines 153-161: the history, then the return
RaceLog(t) ==
    /\ threads[t].pc = "log"
    /\ user_stats' = [user_stats EXCEPT
           ![threads[t].user].last_actions = Min(MaxHistory, @ + 1)]
    /\ threads' = [threads EXCEPT ![t].pc = "done"]
    /\ UNCHANGED <<homeworks, completions, user_trust_scores,
                   delete_operations, clock, last, Storage>>

RCall == \E t \in Threads, u \in Users, action \in {"add", "complete", "delete"} :
    RaceCall(t, u, action)
RCheck == \E t \in Threads : RaceCheck(t)
RCreate == \E t \in Threads : RaceCreate(t)
RCount == \E t \in Threads : RaceCount(t)
RRead == \E t \in Threads : RaceRead(t)
RWrite == \E t \in Threads : RaceWrite(t)
RLog == \E t \in Threads : RaceLog(t)

NextRace == RCall \/ RCheck \/ RCreate \/ RCount \/ RRead \/ RWrite \/ RLog

SpecRace == Init /\ [][NextRace]_vars

\* ------------------------------------------------------------------ claims
\* The rules of the design, stated on the state and independently of the
\* operators above.  Seconds are written as such and turned into ticks here.
Seconds(n) == n * TicksPerSecond
\* the timestamps of w that are at most 3600 seconds old at time now
Fresh(w, now) == SelectSeq(w, LAMBDA ts : now - ts <= Seconds(3600))
ScoreOf(scores, u) == IF u \in DOMAIN scores THEN scores[u] ELSE 70
CapApplies(u, now) == Len(Fresh(delete_operations[u], now)) >= 3
CooldownApplies(u, now) ==
    LET w == delete_operations[u]
    IN  w # <<>> /\ now - w[Len(w)] < Seconds(300)
LimiterMessages == {"hourly_cap", "cooldown", "low_trust"}
\* the homework ids a request may name in the current state
AnyHwId == HwIds \cup Targets(homeworks)
\* the instants at which the check of a delete request that leads from the
\* current state to the next can have read the time
CheckTimes == { t \in Later(clock' - MaxLatency, Times) : clock <= t /\ t <= clock' }

\* C1: with requests handled one at a time, a delete request of a user who
\* has 3 committed deletes within the trailing 3600 seconds is denied with
\* the hourly-cap message, which reports the usage count, and removes nothing.
C1_HourlyCapDenies ==
    [][\A u \in Users, hw_id \in AnyHwId, reason \in ReasonInputs,
          now \in CheckTimes :
          (CapApplies(u, now) /\ delete_homework(u, hw_id, reason, now, clock'))
          => /\ ~last'.success
             /\ last'.message = "hourly_cap"
             /\ last'.hour_count = Len(Fresh(delete_operations[u], now))
             /\ homeworks' = homeworks
             /\ Len(delete_operations'[u]) = Len(Fresh(delete_operations[u], now))
      ]_vars

\* a fourth delete request within the hour was denied with the cap message
C1_Witness ==
    /\ ~last.success
    /\ last.message = "hourly_cap"
    /\ last.hour_count = 3
    /\ Len(delete_operations["u1"]) = 3

\* C2: with requests handled one at a time, a delete request less than 300
\* seconds after the user's latest committed delete is denied, and a cooldown
\* denial reports between 0 and 300 remaining seconds.
C2_CooldownDenies ==
    [][\A u \in Users, hw_id \in AnyHwId, reason \in ReasonInputs,
          now \in CheckTimes :
          (CooldownApplies(u, now) /\ delete_homework(u, hw_id, reason, now, clock'))
          => /\ ~last'.success
             /\ last'.message \in LimiterMessages
             /\ homeworks' = homeworks
             /\ last'.message = "cooldown"
                  => (0 <= last'.remaining /\ last'.remaining <= 300)
      ]_vars

\* a delete request right after a delete was denied with 300 seconds to wait
C2_Witness ==
    /\ ~last.success
    /\ last.message = "cooldown"
    /\ last.remaining = 300
    /\ delete_operations["u1"] # <<>>

\* C3: every policy check at time now leaves in the user's window exactly the
\* timestamps at most 3600 seconds old (and the one it records), counts only
\* those, and permits a user with a score of at least 30 all of whose earlier
\* deletes are more than 3600 seconds old, however many those were.
C3_OnlyFreshDeletesCount ==
    [][\A u \in Users, now \in CheckTimes :
         LET fresh == Fresh(delete_operations[u], now)
         IN  /\ check_delete_limits(u, now)
                => /\ delete_operations'[u] = fresh
                   /\ last'.message = "hourly_cap" => last'.hour_count = Len(fresh)
                   /\ (fresh = <<>> /\ ScoreOf(user_trust_scores, u) >= 30)
                        => last'.message = "permitted"
             /\ \A hw_id \in AnyHwId, reason \in ReasonInputs :
                  delete_homework(u, hw_id, reason, now, clock')
                  => /\ delete_operations'[u] \in {fresh, Append(fresh, clock')}
                     /\ last'.message = "hourly_cap" => last'.hour_count = Len(fresh)
                     /\ (fresh = <<>> /\ ScoreOf(user_trust_scores, u) >= 30)
                          => last'.message \notin LimiterMessages
      ]_vars

\* the user deleted three homeworks in one hour and a fourth in a later hour
C3_Witness ==
    /\ last.success
    /\ last.message = "deleted"
    /\ Len(delete_operations["u1"]) = 1
    /\ "u1" \in DOMAIN user_stats
    /\ user_stats["u1"].homeworks_deleted >= 5

\* C4: the running trust score of every user is an integer from 0 to 100 in
\* every reachable state, after the seeding at startup and after any sequence
\* of recorded add, complete and delete actions.
C4_ScoreInRange ==
    \A u \in DOMAIN user_trust_scores :
        /\ user_trust_scores[u] \in Int
        /\ 0 <= user_trust_scores[u]
        /\ user_trust_scores[u] <= 100

\* a user seeded with 90 completed four more times and stands at the clamp
C4_Witness ==
    /\ "u1" \in DOMAIN user_trust_scores
    /\ user_trust_scores["u1"] = 100
    /\ user_stats["u1"].homeworks_completed = 5

CounterOf(stats, u, field) == IF u \in DOMAIN stats THEN stats[u][field] ELSE 0
\* the scores of all users but u are the same in the next state
OtherScoresKept(u) ==
    \A v \in Users \ {u} :
        /\ (v \in DOMAIN user_trust_scores') = (v \in DOMAIN user_trust_scores)
        /\ v \in DOMAIN user_trust_scores
             => user_trust_scores'[v] = user_trust_scores[v]
\* the next state records one more action of u, counted in field, and moves
\* the score of u from old (70 when u is unseen) to score
Recorded(u, field, score) ==
    /\ u \in DOMAIN user_trust_scores'
    /\ user_trust_scores'[u] = score
    /\ u \in DOMAIN user_stats'
    /\ user_stats'[u][field] = CounterOf(user_stats, u, field) + 1
    /\ OtherScoresKept(u)

\* C8: every recorded action moves the score of the acting user by the fixed
\* delta of its kind from the old score (70 when the user is unseen): add to
\* min(100, old+2), complete to min(100, old+3), delete to max(0, old-2); a
\* repeated action is counted and scored again; no other user's score changes.
C8_FixedDeltas ==
    [][\A u \in Users :
         LET old == ScoreOf(user_trust_scores, u)
         IN  /\ \A code \in Codes :
                  (homeworks' # homeworks /\ add_homework(u, code, TRUE))
                  => Recorded(u, "homeworks_added",
                              IF old + 2 > 100 THEN 100 ELSE old + 2)
             /\ \A hw_id \in AnyHwId :
                  complete_homework(u, hw_id)
                  => Recorded(u, "homeworks_completed",
                              IF old + 3 > 100 THEN 100 ELSE old + 3)
             /\ \A hw_id \in AnyHwId, reason \in Reasons, now \in CheckTimes :
                  (homeworks' # homeworks
                     /\ delete_homework(u, hw_id, reason, now, clock'))
                  => Recorded(u, "homeworks_deleted",
                              IF old - 2 < 0 THEN 0 ELSE old - 2)
      ]_vars

\* an unseen user completed the same homework twice: 70 + 3 + 3
C8_Witness ==
    /\ "u2" \in DOMAIN user_trust_scores
    /\ user_trust_scores["u2"] = 76
    /\ user_stats["u2"].homeworks_completed = 2
    /\ user_stats["u2"].homeworks_added = 0
    /\ DOMAIN completions["u2"] = {1}

\* C5: under any interleaving of concurrent delete requests of one user, the
\* permission check is atomic with the recording of the delete: no two
\* recorded deletes of a user are less than 300 seconds apart, and no four
\* lie within 3600 seconds.
C5_CheckAndRecordAtomic ==
    \A u \in Users :
        LET w == delete_operations[u]
        IN  /\ \A i, j \in 1..Len(w) :
                 i < j => w[j] - w[i] >= Seconds(300)
            /\ \A i, j \in 1..Len(w) :
                 j >= i + 3 => w[j] - w[i] > Seconds(3600)

LowTrustApplies(u) == ScoreOf(user_trust_scores, u) < 30
Exists(hw_id) == \E i \in 1..Len(homeworks) : homeworks[i].id = hw_id
\* the next state differs from this one in nothing but the response, the
\* clock, and the window of u, which holds the timestamps w
NothingButWindow(u, w) ==
    /\ homeworks' = homeworks
    /\ completions' = completions
    /\ user_stats' = user_stats
    /\ user_trust_scores' = user_trust_scores
    /\ delete_operations' = [delete_operations EXCEPT ![u] = w]

\* C6 as stated: every delete attempt of a user whose score is below 30 is
\* denied with the low-trust message, whatever the window holds, and leaves
\* the window as it was.
C6_AsStated ==
    [][\A u \in Users, hw_id \in AnyHwId, reason \in ReasonInputs,
          now \in CheckTimes :
          (LowTrustApplies(u) /\ delete_homework(u, hw_id, reason, now, clock'))
          => /\ ~last'.success
             /\ last'.message = "low_trust"
             /\ delete_operations'[u] = delete_operations[u]
      ]_vars

\* C6, amended: every delete attempt of a user whose score is below 30 is
\* denied and records nothing; the window keeps exactly its timestamps at
\* most 3600 seconds old; the message is the low-trust one exactly when
\* neither the hourly cap nor the cooldown applies, whose message it is
\* otherwise.
C6_LowTrustDenied ==
    [][\A u \in Users, hw_id \in AnyHwId, reason \in ReasonInputs,
          now \in CheckTimes :
          (LowTrustApplies(u) /\ delete_homework(u, hw_id, reason, now, clock'))
          => /\ ~last'.success
             /\ NothingButWindow(u, Fresh(delete_operations[u], now))
             /\ last'.message =
                  IF CapApplies(u, now) THEN "hourly_cap"
                  ELSE IF CooldownApplies(u, now) THEN "cooldown"
                  ELSE "low_trust"
      ]_vars

\* a user whose score fell to 28 was denied for low trust
C6_Witness ==
    /\ ~last.success
    /\ last.message = "low_trust"
    /\ "u1" \in DOMAIN user_trust_scores
    /\ user_trust_scores["u1"] < 30

\* C7: a user whose window is empty after pruning and whose score is at least
\* 60 is permitted, and the delete of an existing homework with a non-empty
\* reason succeeds.
C7_TrustedUserDeletes ==
    [][\A u \in Users, hw_id \in AnyHwId, reason \in Reasons,
          now \in CheckTimes :
          ( /\ Fresh(delete_operations[u], now) = <<>>
            /\ ScoreOf(user_trust_scores, u) >= 60
            /\ Exists(hw_id)
            /\ delete_homework(u, hw_id, reason, now, clock') )
          => /\ last'.message \notin LimiterMessages
             /\ last'.success
             /\ ~\E i \in 1..Len(homeworks') : homeworks'[i].id = hw_id
      ]_vars

\* C9: with requests handled one at a time, a delete that is permitted and
\* applied for user u with reason r lowers the score of u to max(0, old-2),
\* counts one more delete, raises the tally of r by one (to 1 when r is
\* new), adds one entry to the pruned window and signals success, for users
\* first seen in this process and for users loaded at startup alike.
C9_AppliedDeleteEffects ==
    [][\A u \in Users, hw_id \in AnyHwId, reason \in Reasons,
          now \in CheckTimes :
          (homeworks' # homeworks
             /\ delete_homework(u, hw_id, reason, now, clock'))
          => LET old == ScoreOf(user_trust_scores, u)
                 tally == IF u \in DOMAIN user_stats
                          THEN user_stats[u].delete_reasons[reason] ELSE 0
             IN  /\ Recorded(u, "homeworks_deleted",
                             IF old - 2 < 0 THEN 0 ELSE old - 2)
                 /\ user_stats'[u].delete_reasons[reason] = tally + 1
                 /\ delete_operations'[u] =
                      Append(Fresh(delete_operations[u], now), clock')
                 /\ last'.success
      ]_vars

\* C10 as stated: a delete request the limiter denies changes nothing, the
\* delete windows included.
C10_AsStated ==
    [][\A u \in Users, hw_id \in AnyHwId, reason \in ReasonInputs,
          now \in CheckTimes :
          ( /\ CapApplies(u, now) \/ CooldownApplies(u, now) \/ LowTrustApplies(u)
            /\ delete_homework(u, hw_id, reason, now, clock') )
          => /\ ~last'.success
             /\ last'.message \in LimiterMessages
             /\ NothingButWindow(u, delete_operations[u])
      ]_vars

\* C10, amended: a delete request the limiter denies (hourly cap, cooldown
\* or low trust) aborts with the limiter's reason and changes neither the
\* homeworks, the completion records, the statistics, the scores nor the
\* window of any other user; of the requesting user's window it removes the
\* timestamps more than 3600 seconds old and nothing else.
C10_DenialOnlyPrunes ==
    [][\A u \in Users, hw_id \in AnyHwId, reason \in ReasonInputs,
          now \in CheckTimes :
          ( /\ CapApplies(u, now) \/ CooldownApplies(u, now) \/ LowTrustApplies(u)
            /\ delete_homework(u, hw_id, reason, now, clock') )
          => /\ ~last'.success
             /\ last'.message \in LimiterMessages
             /\ NothingButWindow(u, Fresh(delete_operations[u], now))
      ]_vars

\* a request was denied in the cooldown of a delete made after the deletes of
\* an earlier hour had expired
C10_Witness ==
    /\ ~last.success
    /\ last.message = "cooldown"
    /\ Len(delete_operations["u1"]) = 1
    /\ "u1" \in DOMAIN user_stats
    /\ user_stats["u1"].homeworks_deleted >= 3

LimiterApplies(u, now) ==
    CapApplies(u, now) \/ CooldownApplies(u, now) \/ LowTrustApplies(u)

\* C11: a delete request that passes the limiter and gives a reason but
\* names a homework that is not in the collection is aborted as not found
\* and uses no slot: nothing is appended to the window, the score and the
\* counters stay, and a delete at the same time is still permitted.
C11_NotFoundUsesNoSlot ==
    [][\A u \in Users, hw_id \in AnyHwId, reason \in Reasons,
          now \in CheckTimes :
          ( /\ ~Exists(hw_id)
            /\ ~LimiterApplies(u, now)
            /\ delete_homework(u, hw_id, reason, now, clock') )
          => /\ ~last'.success
             /\ last'.message = "not_found"
             /\ NothingButWindow(u, Fresh(delete_operations[u], now))
             /\ clock' = now
             /\ Len(Fresh(delete_operations'[u], clock')) < 3
             /\ \/ delete_operations'[u] = <<>>
                \/ clock' - delete_operations'[u][Len(delete_operations'[u])]
                     >= Seconds(300)
             /\ ScoreOf(user_trust_scores', u) >= 30
      ]_vars

\* a permitted request named a homework that does not exist
C11_Witness ==
    /\ ~last.success
    /\ last.message = "not_found"
    /\ \E u \in Users : delete_operations[u] = <<>>

\* s is w without some of its oldest timestamps
IsPruned(s, w) == \E k \in 0..Len(w) : s = SubSeq(w, k + 1, Len(w))
Ids(hws) == { hws[i].id : i \in 1..Len(hws) }
\* the next state has a timestamp in the window of u that this one has not
Grew(u) == ~IsPruned(delete_operations'[u], delete_operations[u])
\* the next state lacks a homework id that this one has
Removed == Ids(homeworks) \ Ids(homeworks') # {}

\* C12: a timestamp is appended to the window of a user only by a delete
\* request of that user that the limiter permitted and that removed the
\* homework, one timestamp for one removal, and every removal appends one:
\* appended timestamps and removals of a user stay equal in number.
C12_AppendedIffRemoved ==
    [][/\ \A u \in Users :
            Grew(u)
            => /\ Removed
               /\ \A v \in Users \ {u} : ~Grew(v)
               /\ \E w \in { SubSeq(delete_operations[u], k + 1,
                                    Len(delete_operations[u])) :
                               k \in 0..Len(delete_operations[u]) } :
                     delete_operations'[u] = Append(w, clock')
               /\ \E hw_id \in AnyHwId, reason \in Reasons, now \in CheckTimes :
                     /\ ~LimiterApplies(u, now)
                     /\ Exists(hw_id)
                     /\ hw_id \notin Ids(homeworks')
                     /\ delete_homework(u, hw_id, reason, now, clock')
       /\ Removed => \E u \in Users : Grew(u)
      ]_vars

\* an unseen user removed one of the two homeworks and has one timestamp
C12_Witness ==
    /\ Len(homeworks) = 1
    /\ Len(delete_operations["u2"]) = 1
    /\ delete_operations["u1"] = <<>>
    /\ "u2" \in DOMAIN user_stats
    /\ user_stats["u2"].homeworks_deleted = 1

\* C13: a delete request whose reason is missing or empty never succeeds: no
\* homework and no completion record is removed, no timestamp is recorded,
\* and the score, the counters and the reason tally stay as they were.
C13_NoReasonNoDelete ==
    [][\A u \in Users, hw_id \in AnyHwId, now \in CheckTimes :
          delete_homework(u, hw_id, "", now, clock')
          => /\ ~last'.success
             /\ NothingButWindow(u, Fresh(delete_operations[u], now))
      ]_vars

\* a permitted request without a reason was turned down
C13_Witness ==
    /\ ~last.success
    /\ last.message = "no_reason"
    /\ homeworks # <<>>

\* C14: after a successful delete of homework h no homework has the id h and
\* no user's completion map has a record of h; every other homework and
\* every completion record of another id is as before.
C14_RemovalFrame ==
    [][\A u \in Users, h \in AnyHwId, reason \in Reasons, now \in CheckTimes :
          (last'.success /\ delete_homework(u, h, reason, now, clock'))
          => /\ h \notin Ids(homeworks')
             /\ homeworks' = SelectSeq(homeworks, LAMBDA hw : hw.id # h)
             /\ DOMAIN completions' = DOMAIN completions
             /\ \A v \in DOMAIN completions :
                  /\ DOMAIN completions'[v] = DOMAIN completions[v] \ {h}
                  /\ \A k \in DOMAIN completions'[v] :
                       completions'[v][k] = completions[v][k]
      ]_vars

\* the homework two users had completed was deleted; their records of it
\* are gone and the record of the other homework is kept
C14_Witness ==
    /\ last.success
    /\ last.message = "deleted"
    /\ Ids(homeworks) = {2}
    /\ DOMAIN completions = {"u1", "u2"}
    /\ DOMAIN completions["u1"] = {2}
    /\ DOMAIN completions["u2"] = {}

\* the score the design derives from the counters a, c and d
Recomputed(a, c, d) ==
    LET acted == IF a + c < 1 THEN 1 ELSE a + c
        all == IF a + c + d < 1 THEN 1 ELSE a + c + d
        B == IF c * 10 > acted * 7 THEN 20
             ELSE IF c * 10 > acted * 3 THEN 10 ELSE 0
        P == IF d * 10 > all * 5 THEN 30
             ELSE IF d * 10 > all * 3 THEN 15 ELSE 0
        raw == 70 + B - P
    IN  IF raw < 0 THEN 0 ELSE IF raw > 100 THEN 100 ELSE raw

\* C20: for all counters a, c, d the recomputed score is 70 + B - P clamped
\* to 0..100, with B = 20 when c / max(1, a+c) > 0.7, 10 when it is > 0.3,
\* else 0, and P = 30 when d / max(1, a+c+d) > 0.5, 15 when it is > 0.3,
\* else 0, the thresholds strict; it is 70 for a user without statistics.
C20_RecomputeFormula ==
    \A u \in DOMAIN user_trust_scores :
        user_trust_scores[u] =
            IF u \in DOMAIN user_stats
            THEN Recomputed(user_stats[u].homeworks_added,
                            user_stats[u].homeworks_completed,
                            user_stats[u].homeworks_deleted)
            ELSE 70

\* completed 7 of 10 and deleted 10 of 20: both ratios sit on a threshold and
\* earn the lower branch, 70 + 10 - 15; the user without statistics has 70
C20_Witness ==
    /\ "u1" \in DOMAIN user_stats
    /\ user_stats["u1"].homeworks_added = 3
    /\ user_stats["u1"].homeworks_completed = 7
    /\ user_stats["u1"].homeworks_deleted = 10
    /\ user_trust_scores["u1"] = 65
    /\ "u2" \notin DOMAIN user_stats
    /\ user_trust_scores["u2"] = 70
    /\ last.message = "permitted"

HistoryOf(stats, u) == IF u \in DOMAIN stats THEN stats[u].last_actions ELSE <<>>
\* the last min(Len(all), 50) records of all, in their order
MostRecent(all) ==
    LET k == IF Len(all) < 50 THEN Len(all) ELSE 50
    IN  [i \in 1..k |-> all[Len(all) - k + i]]

\* C15: after every call of record_action the history of the user has at
\* most 50 records and holds the most recent min(n, 50) actions of the user
\* in the order they were recorded: the call adds its record at the end and
\* the oldest record leaves when there would be more than 50.
C15_HistoryMostRecent ==
    [][\A u \in Users, action \in {"add", "complete", "delete"},
          homework_id \in AnyHwId :
          RecordAction(u, action, homework_id)
          => /\ Len(HistoryOf(user_stats', u)) <= 50
             /\ HistoryOf(user_stats', u) =
                  MostRecent(Append(HistoryOf(user_stats, u),
                                    [action |-> action,
                                     homework_id |-> homework_id]))
             /\ \A v \in Users \ {u} :
                  HistoryOf(user_stats', v) = HistoryOf(user_stats, v)
      ]_vars

\* two calls on a full history: the two oldest records are gone, the record
\* of the latest call is the last
C15_Witness ==
    /\ "u1" \in DOMAIN user_stats
    /\ Len(user_stats["u1"].last_actions) = 50
    /\ user_stats["u1"].last_actions[1].homework_id = 3
    /\ user_stats["u1"].last_actions[49].action = "complete"
    /\ user_stats["u1"].last_actions[50].action = "delete"

Memory == <<homeworks, completions, user_stats, user_trust_scores>>

\* C16: every step that changes the homework list, the completion map, the
\* statistics of a user or the trust-score map is taken by a request that
\* holds data_lock at that moment.
C16_MutationsUnderLock ==
    [][Memory' # Memory
       => \E t \in Threads : /\ data_lock = HeldByRequest(t)
                             /\ threads'[t] # threads[t]
      ]_vars

\* C17: a save task holds data_lock only while it takes its snapshot: no
\* task about to write or writing holds it, and no step that writes a file
\* is taken under the lock of a save task.  The handler does not wait for
\* the task: async_save_data leaves the new task not yet started and the
\* files as they were, and the handler goes on to its response.
C17_LockOnlyForSnapshot ==
    [][/\ \A i \in 1..Len(save_tasks') :
            data_lock' = HeldBySave(i) => save_tasks'[i].pc = "locked"
       /\ \A i \in 1..Len(save_tasks) :
            files' # files /\ save_tasks'[i] # save_tasks[i]
            => data_lock # HeldBySave(i) /\ data_lock' = data_lock
       /\ \A t \in Threads :
            CompleteSave(t)
            => /\ save_tasks'[Len(save_tasks')] = NewTask(t)
               /\ threads'[t].pc = "return"
               /\ files' = files
       /\ \A t \in Threads :
            CompleteReturn(t) => last'.success /\ save_tasks' = save_tasks
      ]_vars

\* a request has had its response while the task it started is still
\* writing, and another request holds the lock meanwhile
C17_Witness ==
    /\ last = Response(TRUE, "completed")
    /\ \E i \in 1..Len(save_tasks) :
         /\ save_tasks[i].pc = "write_completions"
         /\ threads[save_tasks[i].by].pc = "idle"
         /\ files.homeworks = save_tasks[i].homeworks
    /\ data_lock.kind = "request"

\* every request has returned and every save task started has ended, none
\* of them by a write error
Settled ==
    /\ \A t \in Threads : threads[t].pc = "idle"
    /\ \A i \in 1..Len(save_tasks) : save_tasks[i].pc = "done"

\* C18: once all requests have returned and every save task has finished
\* without a write error, the three files hold the homework list, the
\* completion map and the statistics that are in memory.
C18_StorageEqualsMemory ==
    Settled
    => /\ files.homeworks = homeworks
       /\ files.completions = completions
       /\ files.user_stats = Dump(user_stats)
       /\ files.garbled = {}

\* C19: a write error inside a save task ends that task and nothing else:
\* the homework list, the completion map, the statistics, the trust scores
\* and the delete windows are as they were, no request is disturbed, and
\* the request that started the task answers with success, also when the
\* task has failed before the answer is made.
C19_WriteFailureAbsorbed ==
    [][/\ \A i \in 1..Len(save_tasks) :
            save_tasks[i].pc # "failed" /\ save_tasks'[i].pc = "failed"
            => /\ UNCHANGED <<homeworks, completions, user_stats,
                              user_trust_scores, delete_operations>>
               /\ UNCHANGED <<threads, last, data_lock>>
               /\ \A j \in 1..Len(save_tasks) \ {i} :
                    save_tasks'[j] = save_tasks[j]
       /\ \A i \in 1..Len(save_tasks) :
            LET t == save_tasks[i].by
            IN  save_tasks[i].pc = "failed" /\ CompleteReturn(t)
                => last' = Response(TRUE, "completed")
      ]_vars

\* the task of a request has failed on its first write, leaving the file
\* emptied, the request has answered with success all the same and memory
\* holds the completion
C19_Witness ==
    /\ Len(save_tasks) = 1
    /\ save_tasks[1].pc = "failed"
    /\ "homeworks" \in files.garbled
    /\ threads[save_tasks[1].by].pc = "idle"
    /\ last = Response(TRUE, "completed")
    /\ "u1" \in DOMAIN completions
    /\ "u1" \in DOMAIN user_stats
    /\ user_stats["u1"].homeworks_completed >= 1

\* the score the design derives from the counters of u in stats
RecomputedOf(stats, u) ==
    Recomputed(CounterOf(stats, u, "homeworks_added"),
               CounterOf(stats, u, "homeworks_completed"),
               CounterOf(stats, u, "homeworks_deleted"))

\* the next state counts one more action of u in field and in no other field
CountedOnce(u, field) ==
    \A f \in {"homeworks_added", "homeworks_completed", "homeworks_deleted"} :
        CounterOf(user_stats', u, f) =
            CounterOf(user_stats, u, f) + (IF f = field THEN 1 ELSE 0)

\* C21: when the process has started, the users with a score are the users
\* of the loaded statistics and of the loaded completion map, and each has
\* the score recomputed from the loaded counters.  From then on a score only
\* changes in a step that counts one action of that user, and by the fixed
\* delta of the action from the running score; it is never recomputed.
C21_SeededThenIncremental ==
    /\ DOMAIN user_trust_scores = DOMAIN completions \cup DOMAIN user_stats
    /\ \A u \in DOMAIN user_trust_scores :
         user_trust_scores[u] = RecomputedOf(user_stats, u)
    /\ [][\A u \in Users :
            LET old == ScoreOf(user_trust_scores, u)
                new == ScoreOf(user_trust_scores', u)
            IN  \/ /\ new = old
                   /\ u \in DOMAIN user_trust_scores
                        => u \in DOMAIN user_trust_scores'
                \/ /\ CountedOnce(u, "homeworks_added")
                   /\ new = (IF old + 2 > 100 THEN 100 ELSE old + 2)
                \/ /\ CountedOnce(u, "homeworks_completed")
                   /\ new = (IF old + 3 > 100 THEN 100 ELSE old + 3)
                \/ /\ CountedOnce(u, "homeworks_deleted")
                   /\ new = (IF old - 2 < 0 THEN 0 ELSE old - 2)
         ]_vars

\* u2, known from the completion map alone, was seeded with 70 and has added
\* a homework; u1, seeded with 80, has deleted one and runs at 78 where the
\* counters would give 80
C21_Witness ==
    /\ "u2" \in DOMAIN completions
    /\ user_trust_scores["u2"] = 72
    /\ user_stats["u2"].homeworks_added = 1
    /\ user_trust_scores["u1"] = 78
    /\ RecomputedOf(user_stats, "u1") = 80

\* C22: a delete request with an empty or missing reason is rejected with
\* the missing-reason outcome, whatever the limiter would say of it.
C22_ReasonCheckedFirst ==
    [][\A u \in Users, hw_id \in AnyHwId, now \in CheckTimes :
          delete_homework(u, hw_id, "", now, clock')
          => ~last'.success /\ last'.message = "no_reason"
      ]_vars

\* scores on both sides of every threshold of the policy check
SampleScores == {0, 29, 30, 59, 60, 79, 80, 100}

\* C23: the policy check reports the hourly cap when the cap applies, else
\* the cooldown when the cooldown applies, else the low trust when the score
\* is below 30, and permits exactly when none of the three applies; when the
\* cap or the cooldown applies its answer is the same for every score.
C23_RulePriority ==
    [][\A u \in Users, now \in CheckTimes :
          check_delete_limits(u, now)
          => LET cap == CapApplies(u, now)
                 cooldown == CooldownApplies(u, now)
                 low == LowTrustApplies(u)
             IN  /\ last'.message =
                       IF cap THEN "hourly_cap"
                       ELSE IF cooldown THEN "cooldown"
                       ELSE IF low THEN "low_trust"
                       ELSE "permitted"
                 /\ can_user_delete(delete_operations, user_trust_scores, u, now).ok
                      = ~(cap \/ cooldown \/ low)
                 /\ cap \/ cooldown
                      => \A s \in SampleScores :
                           can_user_delete(delete_operations,
                                           Put(user_trust_scores, u, s), u, now)
                           = can_user_delete(delete_operations,
                                             user_trust_scores, u, now)
      ]_vars

\* a check right after the third delete of the hour by a user whose score
\* has come down to 28: all three rules apply and the cap is reported
C23_Witness ==
    /\ last.success
    /\ last.message = "hourly_cap"
    /\ Len(delete_operations["u1"]) = 3
    /\ clock - delete_operations["u1"][3] < Seconds(300)
    /\ ScoreOf(user_trust_scores, "u1") < 30

\* C24: the daily cap of the tier plays no part in the decision.  At every
\* policy check the answer is the same for any two scores of at least 30,
\* it is the answer given on the deletes at most 3600 seconds old alone, and
\* a user with a score of at least 30 whose deletes are all older than that
\* is permitted.
C24_DailyCapNotEnforced ==
    [][\A u \in Users, now \in CheckTimes :
          check_delete_limits(u, now)
          => /\ \A s1, s2 \in { s \in SampleScores : s >= 30 } :
                  can_user_delete(delete_operations,
                                  Put(user_trust_scores, u, s1), u, now)
                  = can_user_delete(delete_operations,
                                    Put(user_trust_scores, u, s2), u, now)
             /\ can_user_delete(delete_operations, user_trust_scores, u, now)
                  = can_user_delete(
                        [delete_operations EXCEPT ![u] = Fresh(@, now)],
                        user_trust_scores, u, now)
             /\ (Fresh(delete_operations[u], now) = <<>> /\ ~LowTrustApplies(u))
                  => last'.message = "permitted"
      ]_vars

\* within two hours of the start a user of the lowest tier, 3 deletes a day,
\* has deleted more homeworks than that and is permitted another delete
C24_Witness ==
    /\ ScoreOf(user_trust_scores, "u1") >= 30
    /\ ScoreOf(user_trust_scores, "u1") < 60
    /\ NumStored - Len(homeworks) > 3
    /\ clock < Seconds(24 * 3600)
    /\ last.success
    /\ last.message = "permitted"

\* C25: a delete request is answered with success exactly when it removed
\* the homework from the collection.
C25_SuccessIffRemoved ==
    [][\A u \in Users, hw_id \in AnyHwId, reason \in ReasonInputs,
          now \in CheckTimes :
          delete_homework(u, hw_id, reason, now, clock')
          => (last'.success <=> Removed)
      ]_vars

\* C26: the homeworks of the collection have pairwise distinct ids.
C26_DistinctIds ==
    \A i, j \in 1..Len(homeworks) :
        i # j => homeworks[i].id # homeworks[j].id

\* the calls of record_action for u with the given action that have returned
Returned(u, action) ==
    Cardinality({ t \in Threads : /\ threads[t].pc = "done"
                                  /\ threads[t].user = u
                                  /\ threads[t].action = action })

\* C27: when the concurrent calls of record_action have all returned, each
\* counter of a user has grown, from its value at startup, by the number of
\* calls of its kind for that user, and the score of the user has moved
\* from its value at startup by the sum of the deltas of the calls.
C27_NoLostUpdate ==
    (\A t \in Threads : threads[t].pc = "done")
    => \A u \in Users :
         /\ CounterOf(user_stats, u, "homeworks_added")
              = CounterOf(files.user_stats, u, "homeworks_added")
                + Returned(u, "add")
         /\ CounterOf(user_stats, u, "homeworks_completed")
              = CounterOf(files.user_stats, u, "homeworks_completed")
                + Returned(u, "complete")
         /\ CounterOf(user_stats, u, "homeworks_deleted")
              = CounterOf(files.user_stats, u, "homeworks_deleted")
                + Returned(u, "delete")
         /\ ScoreOf(user_trust_scores, u)
              = RecomputedOf(files.user_stats, u)
                + 2 * Returned(u, "add") + 3 * Returned(u, "complete")
                - 2 * Returned(u, "delete")

\* C28: with requests handled one at a time, the running score of a user
\* is never below 28.
C28_ScoreAtLeast28 ==
    \A u \in DOMAIN user_trust_scores : user_trust_scores[u] >= 28

\* a user seeded with 40 has deleted six homeworks, runs at 28 and is now
\* denied for low trust
C28_Witness ==
    /\ "u1" \in DOMAIN user_trust_scores
    /\ user_trust_scores["u1"] = 28
    /\ ~last.success
    /\ last.message = "low_trust"

\* C29: the score load_data derives from the counters of a user lies between
\* 40 and 90 whatever the counters are, so that right after startup the
\* policy check denies no known user for low trust.
C29_SeedBetween40And90 ==
    /\ \A u \in DOMAIN user_trust_scores :
         /\ user_trust_scores[u] = RecomputedOf(user_stats, u)
         /\ 40 <= user_trust_scores[u]
         /\ user_trust_scores[u] <= 90
    /\ last.message # "low_trust"

\* the statistics file counts 7 deletes of u1 and nothing else, as it does
\* for a user seeded with 40 who went on to delete six homeworks and ran at
\* 28; the process has restarted, u1 has 40 again and is permitted
C29_Witness ==
    /\ "u1" \in DOMAIN user_stats
    /\ user_stats["u1"].homeworks_added = 0
    /\ user_stats["u1"].homeworks_completed = 0
    /\ user_stats["u1"].homeworks_deleted = 7
    /\ user_trust_scores["u1"] = 40
    /\ last.message = "permitted"
    /\ delete_operations["u1"] = <<>>

\* C30: with requests handled one at a time, the delete window of every
\* user is sorted oldest first, holds at most 3 timestamps, and any two
\* consecutive timestamps of it are at least 300 seconds apart.
C30_WindowShape ==
    \A u \in Users :
        LET w == delete_operations[u]
        IN  /\ Len(w) <= 3
            /\ \A i \in 1..(Len(w) - 1) :
                 /\ w[i] <= w[i + 1]
                 /\ w[i + 1] - w[i] >= Seconds(300)

\* three deletes of the second hour, each made as soon as the cooldown of
\* the one before had ended, after the deletes of the first hour had expired
C30_Witness ==
    LET w == delete_operations["u1"]
    IN  /\ Len(w) = 3
        /\ w[1] > Seconds(3600)
        /\ w[2] - w[1] = Seconds(300)
        /\ w[3] - w[2] = Seconds(300)
        /\ NumStored - Len(homeworks) = 6

\* C31: every completion record refers to a homework of the collection.
C31_CompletionsReferToHomeworks ==
    \A u \in DOMAIN completions :
        \A hw_id \in DOMAIN completions[u] : Exists(hw_id)

\* C32: a policy check changes no score, counter, homework or completion
\* record and no window but the one of its user, from which it only drops
\* timestamps older than 3600 seconds; the same check made again at the same
\* time gives the same answer and drops nothing more, and the limiter
\* decides a delete request of the user made at that or any later time as
\* it would have decided it without the check.
C32_CheckIsQuery ==
    [][\A u \in Users, now \in CheckTimes :
          check_delete_limits(u, now)
          => /\ UNCHANGED <<homeworks, completions, user_stats,
                            user_trust_scores>>
             /\ \A v \in Users \ {u} :
                  delete_operations'[v] = delete_operations[v]
             /\ delete_operations'[u] = Fresh(delete_operations[u], now)
             /\ Prune(delete_operations'[u], now) = delete_operations'[u]
             /\ \A t \in { x \in Times : x >= now } :
                  can_user_delete(delete_operations', user_trust_scores', u, t)
                  = can_user_delete(delete_operations, user_trust_scores, u, t)
             /\ last'.message =
                  can_user_delete(delete_operations', user_trust_scores',
                                  u, now).message
      ]_vars

\* a check in the third hour has emptied the window of the three deletes of
\* the first hour and permits
C32_Witness ==
    /\ last.success
    /\ last.message = "permitted"
    /\ delete_operations["u1"] = <<>>
    /\ NumStored - Len(homeworks) = 3
    /\ clock > Seconds(2 * 3600)

====
